---- MODULE Spec2Model ----
(***************************************************************************)
(* A model of the portal-arcgis-asset-api cluster start-up (api.js): the   *)
(* master process, the workers it forks, the memored cache they share and  *)
(* the warm-up of that cache from features.json and the asset files.       *)
(***************************************************************************)
EXTENDS Bags, FiniteSets, Integers, Sequences, TLC

\* Largest number of CPUs (os.cpus().length) the model explores.
MaxCpu == 3

Workers == 1 .. MaxCpu

\* The feature names and site codes that occur in the explored registries.
FeatureNames == {"A", "B"}
SiteCodes == {"X", "Y"}
AssetPairs == FeatureNames \X SiteCodes

(***************************************************************************)
(* JSON values, as far as the program distinguishes them.  An object is    *)
(* the sequence of its entries in insertion order (the order of            *)
(* Object.keys); an entry's value is an array of site codes (isArr) or a   *)
(* number.                                                                 *)
(***************************************************************************)
JUndefined == [kind |-> "undefined", len |-> 0, entries |-> <<>>]
JNull == [kind |-> "null", len |-> 0, entries |-> <<>>]
JTrue == [kind |-> "true", len |-> 0, entries |-> <<>>]
JNum == [kind |-> "num", len |-> 0, entries |-> <<>>]
JStr(n) == [kind |-> "str", len |-> n, entries |-> <<>>]
JObj(es) == [kind |-> "obj", len |-> 0, entries |-> es]
Arr(k, sites) == [k |-> k, isArr |-> TRUE, items |-> sites]
NotArr(k) == [k |-> k, isArr |-> FALSE, items |-> <<>>]

\* The registries (valid contents of features.json) the model explores.
ValidRegistries ==
    { JObj(<<>>),
      JObj(<<Arr("A", <<"X">>)>>),
      JObj(<<Arr("A", <<"X", "Y">>)>>),
      JObj(<<Arr("A", <<"X">>), Arr("B", <<"Y">>)>>),
      JObj(<<Arr("A", <<"X", "Y">>), Arr("B", <<"X">>)>>) }

\* Documents that parse as JSON but are no mapping from feature to array of strings.
InvalidDocuments ==
    { JNull, JNum, JStr(2),
      JObj(<<NotArr("A")>>),
      JObj(<<Arr("A", <<"X">>), NotArr("B")>>) }

\* The states of ./features.json on disk.
FeaturesFiles ==
    { [state |-> "missing", value |-> JUndefined],
      [state |-> "unparsable", value |-> JUndefined] }
    \cup { [state |-> "json", value |-> v] : v \in ValidRegistries \cup InvalidDocuments }

\* The sets of asset files present under ./assets that the model explores.
AssetFileSets ==
    { {}, AssetPairs, {<<"A", "X">>}, {<<"A", "Y">>, <<"B", "X">>},
      {<<"A", "X">>, <<"B", "Y">>} }

\* The bytes of the asset file of a pair (distinct files hold distinct bytes).
AssetBytes(pair) ==
    <<(IF pair[1] = "A" THEN 1 ELSE 2), (IF pair[2] = "X" THEN 3 ELSE 4)>>

\* Buffer.prototype.toJSON: { type: 'Buffer', data: [...] }
BufferToJSON(bytes) == [kind |-> "buffer", data |-> bytes]

VARIABLES
    cpuCount,       \* CPU_COUNT
    featuresFile,   \* ./features.json on disk
    assetFiles,     \* the pairs whose file ./assets/<feature>/<siteCode>.json exists
    cache,          \* the memored cache held by the master: key -> value
    masterState,    \* "init", "running" or "exited"
    masterExit,     \* the master's exit status (-1 while it runs)
    inbox,          \* messages sent with process.send, not yet handled by the master
    forked,         \* the workers forked so far
    pc,             \* each worker's position in api.js
    exitCode,       \* each worker's exit status (-1 while it has none)
    plan,           \* each worker's cachePromises: the (feature, siteCode) pairs issued
    results,        \* each worker's cachePromises: "pending", "fulfilled" or "rejected"
    threw,          \* whether the worker's cacheAllAssets raised while iterating
    report,         \* each worker's logged counts of successful and failed assets
    features,       \* each worker's const features (line 178)
    populated,      \* the workers that have called cacheAllAssets
    registryLoads,  \* the workers that have read ./features.json
    assetReads,     \* the (worker, pair) file reads issued
    storeLog,       \* the bag of cache.store calls issued: [by, key]
    sent,           \* every message ever sent with process.send, in order
    loadedFile,     \* what each worker's cacheFeatures found in ./features.json
    http            \* the request being handled, or the last one answered

\* build.js: one call of sanitizeCoordinates.
VARIABLES
    coords,           \* the argument
    sanitizedCoords,  \* the value returned
    warnings,         \* the log.warn calls made, in order
    buildPhase        \* "idle", "input" or "done"

\* build.js: one call of geojsonToSites.
VARIABLES
    records,          \* geojson.features, the records of one converted source
    sites,            \* the value returned: the entries of the sites object, in key order
    parsePhase        \* "input" or "done"

\* build.js: the run from the downloads to finalize.
VARIABLES
    srcState,         \* each source: "fetched", "reading", "converting", "converted",
                      \* "readFailed" or "rejected"
    FEATURE_SOURCES,  \* each source's record: its parsed flag
    GEOJSON_SOURCES,  \* the converted geojson of each source
    featuresJSON,     \* the feature's site codes, for every key of FEATURES
    parsedSites,      \* each feature's sites as generateOutfiles parsed them
    genLog,           \* what generateOutfiles logged last for each feature
    dirState,         \* each feature's mkdir: "none", "pending", "made" or "failed"
    fileState,        \* each asset file's writeFile: "none", "pending", "written", "failed"
    genRuns,          \* how often generateOutfiles was started
    finRuns,          \* how often finalize has run
    pendingAtFinalize,\* the mkdir and writeFile calls not settled when finalize last ran
    crashed           \* the process was ended by an unhandled rejection

\* api.js, cacheAllAssets: the asset keys computed, each with its pair.
VARIABLES assetKeys

diskVars == <<cpuCount, assetFiles>>
masterVars == <<masterState, masterExit, forked>>
warmVars == <<plan, results, threw, report>>
ghostVars == <<populated, registryLoads, loadedFile, assetReads, storeLog>>
fileVars == <<featuresFile>>
httpVars == <<http>>
sanVars == <<coords, sanitizedCoords, warnings, buildPhase>>
parseVars == <<records, sites, parsePhase>>
sourceVars == <<srcState, FEATURE_SOURCES, GEOJSON_SOURCES>>
outVars == <<featuresJSON, parsedSites, genLog, genRuns, finRuns, pendingAtFinalize>>
writeVars == <<dirState, fileState>>
pipeVars == <<sourceVars, outVars, writeVars, crashed>>
buildVars == <<sanVars, parseVars, pipeVars>>
envVars == <<fileVars, httpVars, buildVars>>

apiVars == <<cpuCount, featuresFile, assetFiles, cache, masterState, masterExit, inbox,
             forked, pc, exitCode, plan, results, threw, report, features, populated,
             registryLoads, assetReads, storeLog, sent, loadedFile, http>>

\* The variables of api.js that build.js leaves alone: all but the two on disk.
clusterVars == <<cpuCount, cache, masterState, masterExit, inbox, forked, pc, exitCode,
                 plan, results, threw, report, features, populated, registryLoads,
                 assetReads, storeLog, sent, loadedFile, http>>

keyVars == <<assetKeys>>

vars == <<apiVars, buildVars, keyVars>>

NoReport == [done |-> FALSE, succeeded |-> 0, failed |-> 0]

\* A worker that has not run cacheFeatures.
NotLoaded == [state |-> "unread", value |-> JUndefined]

\* A response body: nothing, a text, a list of names or bytes.
NoBody == [kind |-> "none", list |-> <<>>, bytes |-> <<>>]

\* No request has been made yet.
NoRequest ==
    [phase |-> "none", by |-> 0, route |-> "none", feature |-> "", siteCode |-> "",
     status |-> 0, body |-> NoBody, contentType |-> "", contentEncoding |-> "",
     cacheReads |-> 0, readError |-> FALSE]

\* The values a coordinate tree is made of: a finite number, a number that is
\* not finite (NaN, Infinity), a value that is neither number nor array, an array.
CNum(n) == [t |-> "num", n |-> n, items |-> <<>>]
CNaN == [t |-> "nan", n |-> 0, items |-> <<>>]
CStr == [t |-> "str", n |-> 0, items |-> <<>>]
CArr(items) == [t |-> "arr", n |-> 0, items |-> items]

\* No coordinates at hand.
NoCoords == [t |-> "none", n |-> 0, items |-> <<>>]

\* Object.keys(FEATURE_SOURCES) and Object.keys(FEATURES), in order.  The
\* features carry the names the registries of api.js use.
SourceKeys == <<"S1", "S2">>
FeatureKeys == <<"A", "B">>

\* No converted geojson for a source.
NoGeojson == [kind |-> "none", features |-> <<>>, files |-> <<>>]

\* build.js is not running.
BuildIdle ==
    /\ coords = NoCoords
    /\ sanitizedCoords = NoCoords
    /\ warnings = <<>>
    /\ buildPhase = "idle"
    /\ records = <<>>
    /\ sites = <<>>
    /\ parsePhase = "input"
    /\ srcState = [i \in 1 .. Len(SourceKeys) |-> "fetched"]
    /\ FEATURE_SOURCES = [i \in 1 .. Len(SourceKeys) |-> [parsed |-> FALSE]]
    /\ GEOJSON_SOURCES = [i \in 1 .. Len(SourceKeys) |-> NoGeojson]
    /\ featuresJSON = [i \in 1 .. Len(FeatureKeys) |-> <<>>]
    /\ parsedSites = [i \in 1 .. Len(FeatureKeys) |-> <<>>]
    /\ genLog = [i \in 1 .. Len(FeatureKeys) |-> "none"]
    /\ dirState = [i \in 1 .. Len(FeatureKeys) |-> "none"]
    /\ fileState = [pair \in (1 .. Len(FeatureKeys)) \X SiteCodes |-> "none"]
    /\ genRuns = 0
    /\ finRuns = 0
    /\ pendingAtFinalize = 0
    /\ crashed = FALSE

\* A cold start: nothing forked, an empty cache, and a machine on which
\* os.cpus() lists at least one CPU.
Init ==
    /\ cpuCount \in 1 .. MaxCpu
    /\ featuresFile \in FeaturesFiles
    /\ assetFiles \in AssetFileSets
    /\ cache = <<>>
    /\ masterState = "init"
    /\ masterExit = -1
    /\ inbox = <<>>
    /\ forked = {}
    /\ pc = [w \in Workers |-> "unforked"]
    /\ exitCode = [w \in Workers |-> -1]
    /\ plan = [w \in Workers |-> <<>>]
    /\ results = [w \in Workers |-> <<>>]
    /\ threw = [w \in Workers |-> FALSE]
    /\ report = [w \in Workers |-> NoReport]
    /\ features = [w \in Workers |-> JUndefined]
    /\ populated = {}
    /\ registryLoads = {}
    /\ assetReads = {}
    /\ storeLog = EmptyBag
    /\ sent = <<>>
    /\ loadedFile = [w \in Workers |-> NotLoaded]
    /\ http = NoRequest
    /\ BuildIdle
    /\ assetKeys = <<>>

(***************************************************************************)
(* Pure helpers                                                            *)
(***************************************************************************)

\* JavaScript truthiness of a value (JNum stands for a non-zero number).
Truthy(v) ==
    CASE v.kind = "undefined" -> FALSE
      [] v.kind = "null" -> FALSE
      [] v.kind = "str" -> v.len > 0
      [] OTHER -> TRUE

getAssetKeyJoined(feature, siteCode) == feature \o siteCode

getAssetKey(feature, siteCode) == feature \o "." \o siteCode

\* cache.read(key, cb): the stored value, or undefined for an absent key.
CacheRead(key) == IF key \in DOMAIN cache THEN cache[key] ELSE JUndefined

\* The cache after cache.store(key, value, cb) succeeded.
CacheStored(key, value) == (key :> value) @@ cache

\* The nested forEach of cacheAllAssets over the entries of an object: the
\* pairs whose load was issued before the iteration ended or raised.
RECURSIVE IterateEntries(_, _)
IterateEntries(es, acc) ==
    IF es = <<>> THEN [pairs |-> acc, threw |-> FALSE]
    ELSE IF ~Head(es).isArr THEN [pairs |-> acc, threw |-> TRUE]
    ELSE IterateEntries(Tail(es),
            acc \o [i \in 1 .. Len(Head(es).items) |-> <<Head(es).k, Head(es).items[i]>>])

\* Object.keys(features).forEach(feature => features[feature].forEach(...)):
\* a TypeError for null/undefined, for a value without forEach under a key.
IssueLoads(v) ==
    CASE v.kind \in {"undefined", "null", "buffer"} -> [pairs |-> <<>>, threw |-> TRUE]
      [] v.kind = "str" -> [pairs |-> <<>>, threw |-> v.len > 0]
      [] v.kind = "obj" -> IterateEntries(v.entries, <<>>)
      [] OTHER -> [pairs |-> <<>>, threw |-> FALSE]

\* The (feature, siteCode) pairs of a registry, in iteration order.
RegistryPairs(v) == IssueLoads(v).pairs

IsValidRegistry(v) == v.kind = "obj" /\ \A i \in 1 .. Len(v.entries) : v.entries[i].isArr

Count(seq, x) == Cardinality({i \in 1 .. Len(seq) : seq[i] = x})

Settled(w) == \A i \in 1 .. Len(results[w]) : results[w][i] # "pending"

ErrorMsg(w) == [from |-> w, error |-> TRUE, cacheIsReady |-> FALSE]
ReadyMsg(w) == [from |-> w, error |-> FALSE, cacheIsReady |-> TRUE]

Logged(w, key) == storeLog (+) SetToBag({[by |-> w, key |-> key]})

\* The workers cluster.fork() creates when called n times.
RECURSIVE NextWorkers(_, _)
NextWorkers(n, have) ==
    IF n = 0 \/ Workers \ have = {} THEN {}
    ELSE LET w == CHOOSE x \in Workers \ have : \A y \in Workers \ have : x <= y
         IN {w} \cup NextWorkers(n - 1, have \cup {w})

(***************************************************************************)
(* The master (api.js lines 139-155)                                       *)
(***************************************************************************)

\* The master forks the first worker, the cache warmer, and listens to it.
MasterStart ==
    /\ masterState = "init"
    /\ masterState' = "running"
    /\ forked' = {1}
    /\ pc' = [pc EXCEPT ![1] = "start"]
    /\ UNCHANGED <<keyVars, diskVars, envVars, cache, masterExit, inbox, exitCode, warmVars, features,
                   ghostVars, sent>>

\* A handler whose loop starts at i = 0.
ForkCountFromZero(msg) ==
    IF msg.cacheIsReady /\ cpuCount > 1 THEN cpuCount ELSE 0

\* The number of workers the handler of cacheWarmer's messages forks.
ForkCount(msg) ==
    IF msg.cacheIsReady /\ cpuCount > 1 THEN cpuCount - 1 ELSE 0

\* cacheWarmer.on('message'): only the warmer's messages have a listener.  On
\* msg.error the handler calls the undefined clogWithPid: the ReferenceError is
\* uncaught and ends the master with status 1, as process.exit(1) would have;
\* the cache, which lives in the master, goes with it.
MasterHandleMessage ==
    /\ masterState = "running"
    /\ inbox # <<>>
    /\ LET msg == Head(inbox)
           new == NextWorkers(ForkCount(msg), forked)
       IN /\ inbox' = Tail(inbox)
          /\ IF msg.from # 1
             THEN UNCHANGED <<keyVars, masterVars, pc, cache>>
             ELSE IF msg.error
             THEN /\ masterState' = "exited"
                  /\ masterExit' = 1
                  /\ cache' = <<>>
                  /\ UNCHANGED <<keyVars, forked, pc>>
             ELSE /\ forked' = forked \cup new
                  /\ pc' = [w \in Workers |-> IF w \in new THEN "start" ELSE pc[w]]
                  /\ UNCHANGED <<keyVars, masterState, masterExit, cache>>
    /\ UNCHANGED <<keyVars, diskVars, envVars, exitCode, warmVars, features, ghostVars, sent>>

(***************************************************************************)
(* A worker (api.js lines 107-134 and 162-237)                             *)
(***************************************************************************)

\* A verifyOrBuildCache that warms whatever the flag says.
AfterCheckAlwaysWarm(isInitialized) == "cacheFeatures"

\* A verifyOrBuildCache that takes the cache to be ready whatever the flag says.
AfterCheckNeverWarm(isInitialized) == "getFeatures"

\* Where verifyOrBuildCache goes after reading 'initialized'.
AfterCheck(isInitialized) ==
    IF isInitialized THEN "getFeatures" ELSE "cacheFeatures"

\* verifyOrBuildCache, lines 108-112: await cacheIsInitialized().
CheckInitialized(w) ==
    /\ pc[w] = "start"
    /\ masterState = "running"
    /\ \E err \in BOOLEAN :
         pc' = [pc EXCEPT ![w] = IF err THEN "rejected"
                                  ELSE AfterCheck(Truthy(CacheRead("initialized")))]
    /\ UNCHANGED <<keyVars, diskVars, envVars, cache, masterVars, inbox, exitCode, warmVars, features,
                   ghostVars, sent>>

\* A cacheFeatures whose try block never raises.
FeaturesParsedAlways(file) == TRUE

\* Whether cacheFeatures has a document to store (statSync, readFileSync, JSON.parse).
FeaturesParsed(file) == file.state = "json"

\* verifyOrBuildCache, lines 114-121, with cacheFeatures (51-61): on failure the
\* worker sends the error, returns false and exits with status 1 (line 164).
CacheFeatures(w) ==
    /\ pc[w] = "cacheFeatures"
    /\ masterState = "running"
    /\ registryLoads' = registryLoads \cup {w}
    /\ loadedFile' = [loadedFile EXCEPT ![w] = featuresFile]
    /\ \E err \in BOOLEAN :
         LET parsed == FeaturesParsed(featuresFile)
             ok == parsed /\ ~err
         IN /\ storeLog' = IF parsed THEN Logged(w, "features") ELSE storeLog
            /\ cache' = IF ok THEN CacheStored("features", featuresFile.value) ELSE cache
            /\ pc' = [pc EXCEPT ![w] = IF ok THEN "cacheAssets" ELSE "exited"]
            /\ exitCode' = [exitCode EXCEPT ![w] = IF ok THEN @ ELSE 1]
            /\ inbox' = IF ok THEN inbox ELSE Append(inbox, ErrorMsg(w))
            /\ sent' = IF ok THEN sent ELSE Append(sent, ErrorMsg(w))
    /\ UNCHANGED <<keyVars, diskVars, envVars, masterVars, warmVars, features, populated, assetReads>>

\* cacheAllAssets, lines 74-90: read the registry back and issue every load.
StartCacheAllAssets(w) ==
    /\ pc[w] = "cacheAssets"
    /\ masterState = "running"
    /\ populated' = populated \cup {w}
    /\ \E err \in BOOLEAN :
         LET it == IF err THEN [pairs |-> <<>>, threw |-> TRUE]
                   ELSE IssueLoads(CacheRead("features"))
         IN /\ plan' = [plan EXCEPT ![w] = it.pairs]
            /\ results' = [results EXCEPT ![w] = [i \in 1 .. Len(it.pairs) |-> "pending"]]
            /\ threw' = [threw EXCEPT ![w] = it.threw]
            /\ assetReads' = assetReads \cup {<<w, it.pairs[i]>> : i \in 1 .. Len(it.pairs)}
            /\ pc' = [pc EXCEPT ![w] = IF it.threw THEN "rejected" ELSE "awaitAssets"]
    /\ UNCHANGED <<keyVars, diskVars, envVars, cache, masterVars, inbox, exitCode, report, features,
                   registryLoads, loadedFile, storeLog, sent>>

\* A catch that logs the error and does not rethrow it.
LoadOutcomeSwallowed(exists, storeErr) == "fulfilled"

\* How one load settles: readFile, then promiseCacheStore; the catch rethrows
\* (lines 80-86).
LoadOutcome(exists, storeErr) ==
    IF exists /\ ~storeErr THEN "fulfilled" ELSE "rejected"

\* One of the concurrent loads of cacheAllAssets completes.
LoadAsset(w, i) ==
    /\ pc[w] \in {"awaitAssets", "rejected"}
    /\ masterState = "running"
    /\ i \in 1 .. Len(plan[w])
    /\ results[w][i] = "pending"
    /\ LET pair == plan[w][i]
           key == getAssetKey(pair[1], pair[2])
           exists == pair \in assetFiles
       IN \E storeErr \in BOOLEAN :
            /\ results' = [results EXCEPT ![w][i] = LoadOutcome(exists, storeErr)]
            /\ storeLog' = IF exists THEN Logged(w, key) ELSE storeLog
            /\ cache' = IF exists /\ ~storeErr
                        THEN CacheStored(key, BufferToJSON(AssetBytes(pair)))
                        ELSE cache
    /\ UNCHANGED <<keyVars, diskVars, envVars, masterVars, inbox, pc, exitCode, plan, threw, report,
                   features, populated, registryLoads, loadedFile, assetReads, sent>>

\* Promise.race in place of Promise.allSettled: resolved by the first load to settle.
AnySettled(w) == results[w] = <<>> \/ \E i \in 1 .. Len(results[w]) : results[w][i] # "pending"

\* Promise.all in place of Promise.allSettled: resolved only when every load succeeded.
AllFulfilled(w) == \A i \in 1 .. Len(results[w]) : results[w][i] = "fulfilled"

\* Whether Promise.allSettled(cachePromises) has resolved.
AllSettled(w) == Settled(w)

\* verifyOrBuildCache, lines 124-129: count the outcomes, then store 'initialized'.
AssetsSettled(w) ==
    /\ pc[w] = "awaitAssets"
    /\ AllSettled(w)
    /\ LET successfulAssets == Count(results[w], "fulfilled")
       IN report' = [report EXCEPT ![w] = [done |-> TRUE, succeeded |-> successfulAssets,
                                           failed |-> Len(results[w]) - successfulAssets]]
    /\ pc' = [pc EXCEPT ![w] = "storeInitialized"]
    /\ UNCHANGED <<keyVars, diskVars, envVars, cache, masterVars, inbox, exitCode, plan, results, threw,
                   features, ghostVars, sent>>

\* promiseCacheStore('initialized', true) reaches the cache (line 129).
StoreInitialized(w) ==
    /\ pc[w] = "storeInitialized"
    /\ masterState = "running"
    /\ storeLog' = Logged(w, "initialized")
    /\ \E err \in BOOLEAN :
         /\ cache' = IF err THEN cache ELSE CacheStored("initialized", JTrue)
         /\ pc' = [pc EXCEPT ![w] = IF err THEN "rejected" ELSE "initializedStored"]
    /\ UNCHANGED <<keyVars, diskVars, envVars, masterVars, inbox, exitCode, warmVars, features, populated,
                   registryLoads, loadedFile, assetReads, sent>>

\* A store of 'initialized' that is not awaited.
ReadyToSignalEarly == "storeInitialized"

\* The position from which the worker sends { cacheIsReady: true }.
ReadyToSignal == "initializedStored"

\* verifyOrBuildCache, lines 130-132: the store was acknowledged; tell the master.
SignalReady(w) ==
    /\ pc[w] = ReadyToSignal
    /\ inbox' = Append(inbox, ReadyMsg(w))
    /\ sent' = Append(sent, ReadyMsg(w))
    /\ pc' = [pc EXCEPT ![w] = "getFeatures"]
    /\ UNCHANGED <<keyVars, diskVars, envVars, cache, masterVars, exitCode, warmVars, features, ghostVars>>

\* A getFeatures that parses ./features.json again.
getFeaturesFromDisk == featuresFile.value

\* getFeatures (line 63): the value read under 'features'.
getFeatures == CacheRead("features")

\* The worker branch, lines 163-236: const features = await getFeatures(), the
\* routes, api.listen(3100).
GetFeatures(w) ==
    /\ pc[w] = "getFeatures"
    /\ masterState = "running"
    /\ \E err \in BOOLEAN :
         /\ pc' = [pc EXCEPT ![w] = IF err THEN "rejected" ELSE "listening"]
         /\ features' = [features EXCEPT ![w] = IF err THEN @ ELSE getFeatures]
    /\ UNCHANGED <<keyVars, diskVars, envVars, cache, masterVars, inbox, exitCode, warmVars, ghostVars, sent>>

(***************************************************************************)
(* The routes of a listening worker (api.js lines 185-228).  The handlers  *)
(* write nothing but their response, so the model follows one request at a *)
(* time: http is the request being handled or the last one answered.       *)
(***************************************************************************)

\* The feature and site-code parameters requests are made with.
RequestFeatures == FeatureNames \cup {"C"}
RequestSites == SiteCodes \cup {"Z"}

\* Whether Object.keys(v) raises a TypeError.
KeysThrow(v) == v.kind \in {"undefined", "null"}

\* Object.keys(v), in order.
Keys(v) ==
    CASE v.kind = "obj" -> [i \in 1 .. Len(v.entries) |-> v.entries[i].k]
      [] v.kind = "str" -> [i \in 1 .. v.len |-> ToString(i - 1)]
      [] OTHER -> <<>>

\* Array.prototype.includes
Includes(seq, x) == \E i \in 1 .. Len(seq) : seq[i] = x

\* features[feature], for a feature among Object.keys(features) of an object.
EntryOf(v, feature) ==
    v.entries[CHOOSE i \in 1 .. Len(v.entries) : v.entries[i].k = feature]

TextBody(text) == [kind |-> "text", list |-> <<text>>, bytes |-> <<>>]
ListBody(field, names) == [kind |-> field, list |-> names, bytes |-> <<>>]
BytesBody(bytes) == [kind |-> "bytes", list |-> <<>>, bytes |-> bytes]

\* A response as Koa sends it: the status, the body, the headers that matter.
Response(status, body, contentType) ==
    [status |-> status, body |-> body, contentType |-> contentType, contentEncoding |-> ""]

\* A handler that raised: Koa answers 500.
ServerError == Response(500, TextBody("Internal Server Error"), "text/plain")

\* GET /health (lines 185-187).
HealthResponse == Response(200, TextBody("OK"), "text/plain")

\* GET {API_ROOT}/ (lines 190-194).
FeatureListResponse(v) ==
    IF KeysThrow(v) THEN ServerError
    ELSE Response(200, ListBody("features", Keys(v)), "application/json")

\* A per-feature route that lists the sites last to first.
FeatureSitesReversed(v, feature) ==
    IF KeysThrow(v) THEN ServerError
    ELSE IF ~Includes(Keys(v), feature)
    THEN Response(400, TextBody("Invalid Feature"), "text/plain")
    ELSE Response(200, ListBody("siteCodes",
                                [i \in 1 .. Len(EntryOf(v, feature).items) |->
                                    EntryOf(v, feature).items[
                                        Len(EntryOf(v, feature).items) + 1 - i]]),
                  "application/json")

\* GET {API_ROOT}/:feature (lines 197-206).
FeatureSitesResponse(v, feature) ==
    IF KeysThrow(v) THEN ServerError
    ELSE IF ~Includes(Keys(v), feature)
    THEN Response(400, TextBody("Invalid Feature"), "text/plain")
    ELSE Response(200, ListBody("siteCodes", EntryOf(v, feature).items), "application/json")

\* A leaf route that checks the feature only.
AssetValidationFeatureOnly(v, feature, siteCode) ==
    IF KeysThrow(v) THEN ServerError
    ELSE IF ~Includes(Keys(v), feature)
    THEN Response(400, TextBody("Invalid Feature"), "text/plain")
    ELSE Response(0, NoBody, "")

\* GET {API_ROOT}/:feature/:siteCode, lines 210-219: the answer given before
\* the cache is consulted, or status 0 when the handler goes on to read it.
AssetValidation(v, feature, siteCode) ==
    IF KeysThrow(v) THEN ServerError
    ELSE IF ~Includes(Keys(v), feature)
    THEN Response(400, TextBody("Invalid Feature"), "text/plain")
    ELSE IF v.kind # "obj" \/ ~EntryOf(v, feature).isArr THEN ServerError
    ELSE IF ~Includes(EntryOf(v, feature).items, siteCode)
    THEN Response(400, TextBody("Site Code not valid for this Feature"), "text/plain")
    ELSE Response(0, NoBody, "")

\* Buffer.from(assetData) for the JSON form of a buffer.
BufferFrom(json) == json.data

\* A getAssetData that rejects on a read error, leaving the handler to raise.
AssetResponseRejecting(err, assetData) ==
    IF err THEN ServerError
    ELSE IF assetData.kind = "undefined"
    THEN Response(404, TextBody("Feature and Site Code are valid but asset not found"),
                  "text/plain")
    ELSE Response(200, BytesBody(BufferFrom(assetData)), "application/json")

\* Lines 220-227 with getAssetData (93-101): the answer once cache.read called back.
AssetResponse(err, assetData) ==
    IF err \/ assetData.kind = "undefined"
    THEN Response(404, TextBody("Feature and Site Code are valid but asset not found"),
                  "text/plain")
    ELSE IF assetData.kind # "buffer" THEN ServerError
    ELSE Response(200, BytesBody(BufferFrom(assetData)), "application/json")

\* The request record of an answered request: the response as the client gets
\* it, which does not tell the workers apart.
Answered(route, feature, siteCode, r, reads) ==
    [phase |-> "done", by |-> 0, route |-> route, feature |-> feature,
     siteCode |-> siteCode, status |-> r.status, body |-> r.body,
     contentType |-> r.contentType, contentEncoding |-> r.contentEncoding,
     cacheReads |-> reads, readError |-> FALSE]

\* A worker takes requests once it listens; the model takes the next request
\* when the previous one was answered.
CanServe(w) == pc[w] = "listening" /\ http.phase # "reading"

GetHealth(w) ==
    /\ CanServe(w)
    /\ http' = Answered("health", "", "", HealthResponse, 0)
    /\ UNCHANGED <<keyVars, diskVars, fileVars, buildVars, cache, masterVars, inbox, pc, exitCode,
                   warmVars, features, ghostVars, sent>>

GetFeatureList(w) ==
    /\ CanServe(w)
    /\ http' = Answered("list", "", "", FeatureListResponse(features[w]), 0)
    /\ UNCHANGED <<keyVars, diskVars, fileVars, buildVars, cache, masterVars, inbox, pc, exitCode,
                   warmVars, features, ghostVars, sent>>

GetFeatureSites(w, feature) ==
    /\ CanServe(w)
    /\ http' = Answered("feature", feature, "",
                        FeatureSitesResponse(features[w], feature), 0)
    /\ UNCHANGED <<keyVars, diskVars, fileVars, buildVars, cache, masterVars, inbox, pc, exitCode,
                   warmVars, features, ghostVars, sent>>

\* The leaf route up to await getAssetData(...): answered at once when the
\* parameters are not in the registry, else waiting for cache.read.
GetAsset(w, feature, siteCode) ==
    /\ CanServe(w)
    /\ LET r == AssetValidation(features[w], feature, siteCode)
       IN http' = IF r.status # 0
                  THEN Answered("asset", feature, siteCode, r, 0)
                  ELSE [Answered("asset", feature, siteCode, r, 0)
                          EXCEPT !.phase = "reading", !.by = w]
    /\ UNCHANGED <<keyVars, diskVars, fileVars, buildVars, cache, masterVars, inbox, pc, exitCode,
                   warmVars, features, ghostVars, sent>>

\* cache.read of the leaf route calls back: lines 96-99 and 221-227.
GetAssetRespond(w) ==
    /\ http.phase = "reading"
    /\ http.by = w
    /\ masterState = "running"
    /\ \E err \in BOOLEAN :
         http' = [Answered("asset", http.feature, http.siteCode,
                           AssetResponse(err, CacheRead(getAssetKey(http.feature,
                                                                    http.siteCode))), 1)
                    EXCEPT !.readError = err]
    /\ UNCHANGED <<keyVars, diskVars, fileVars, buildVars, cache, masterVars, inbox, pc, exitCode,
                   warmVars, features, ghostVars, sent>>

\* The requests a client can make of worker w.
Request(w) ==
    \/ GetHealth(w)
    \/ GetFeatureList(w)
    \/ \E f \in RequestFeatures : GetFeatureSites(w, f)
    \/ \E f \in RequestFeatures, s \in RequestSites : GetAsset(w, f, s)

(***************************************************************************)
(* The environment: build.js run again while the cluster is up             *)
(***************************************************************************)

\* What ./features.json is replaced with: nothing, or another registry.
RewriteTargets ==
    { [state |-> "missing", value |-> JUndefined],
      [state |-> "json", value |-> JObj(<<Arr("B", <<"X", "Y">>)>>)] }

\* ./features.json is removed or rewritten after the warmer has read it.
FeaturesFileRewritten ==
    /\ registryLoads # {}
    /\ featuresFile' \in RewriteTargets \ {featuresFile}
    /\ UNCHANGED <<keyVars, diskVars, httpVars, buildVars, cache, masterVars, inbox, pc, exitCode,
                   warmVars, features, ghostVars, sent>>

\* Every step of worker w.
WorkerStep(w) ==
    \/ CheckInitialized(w)
    \/ CacheFeatures(w)
    \/ StartCacheAllAssets(w)
    \/ \E i \in 1 .. Len(plan[w]) : LoadAsset(w, i)
    \/ AssetsSettled(w)
    \/ StoreInitialized(w)
    \/ SignalReady(w)
    \/ GetFeatures(w)

\* The steps of the cluster's start-up.
StartUp ==
    \/ MasterStart
    \/ MasterHandleMessage
    \/ \E w \in Workers : WorkerStep(w)

Next ==
    \/ StartUp
    \/ \E w \in Workers : Request(w)
    \/ \E w \in Workers : GetAssetRespond(w)
    \/ FeaturesFileRewritten

Spec == Init /\ [][Next]_vars

\* The start-up on its own, every process running its event loop: a callback
\* that is ready is eventually run.  Requests and rewrites of ./features.json
\* are left to Spec: they change only http and featuresFile, which no start-up
\* step reads once the warmer has loaded the registry.
FairSpec ==
    /\ Init
    /\ [][StartUp]_vars
    /\ WF_vars(MasterStart \/ MasterHandleMessage)
    /\ \A w \in Workers : WF_vars(WorkerStep(w))

\* The cache as a completed warm-up over registry reg and asset files files
\* leaves it.
WarmCache(reg, files) ==
    LET loaded == {i \in 1 .. Len(RegistryPairs(reg)) : RegistryPairs(reg)[i] \in files}
    IN [k \in {"initialized", "features"}
                \cup {getAssetKey(RegistryPairs(reg)[i][1], RegistryPairs(reg)[i][2]) :
                         i \in loaded} |->
           CASE k = "initialized" -> JTrue
             [] k = "features" -> reg
             [] OTHER -> LET i == CHOOSE j \in loaded :
                                     getAssetKey(RegistryPairs(reg)[j][1],
                                                 RegistryPairs(reg)[j][2]) = k
                         IN BufferToJSON(AssetBytes(RegistryPairs(reg)[i]))]

\* The start the shortcut of verifyOrBuildCache (lines 108-112) is written for:
\* the processes start against a cache that already holds 'initialized' = true.
\* api.js itself never produces this start (its cache lives in the master and
\* starts empty, and no worker is forked twice).
WarmInit ==
    /\ cpuCount \in 1 .. MaxCpu
    /\ featuresFile \in {f \in FeaturesFiles : f.value \in ValidRegistries}
    /\ assetFiles \in AssetFileSets
    /\ cache = WarmCache(featuresFile.value, assetFiles)
    /\ masterState = "init"
    /\ masterExit = -1
    /\ inbox = <<>>
    /\ forked = {}
    /\ pc = [w \in Workers |-> "unforked"]
    /\ exitCode = [w \in Workers |-> -1]
    /\ plan = [w \in Workers |-> <<>>]
    /\ results = [w \in Workers |-> <<>>]
    /\ threw = [w \in Workers |-> FALSE]
    /\ report = [w \in Workers |-> NoReport]
    /\ features = [w \in Workers |-> JUndefined]
    /\ populated = {}
    /\ registryLoads = {}
    /\ assetReads = {}
    /\ storeLog = EmptyBag
    /\ sent = <<>>
    /\ loadedFile = [w \in Workers |-> NotLoaded]
    /\ http = NoRequest
    /\ BuildIdle
    /\ assetKeys = <<>>

\* The cluster started cold or against a warm cache.
WarmSpec == (Init \/ WarmInit) /\ [][Next]_vars

(***************************************************************************)
(* build.js: sanitizeCoordinates (lines 138-167), called by geojsonToSites *)
(* on the coordinates of each geometry (line 183).  build.js is a program  *)
(* of its own, run while api.js is not started.                            *)
(***************************************************************************)

\* The deepest nesting and the longest list of the coordinate trees explored.
MaxDepth == 3
MaxLen == 2

\* Number.isFinite
IsFinite(c) == c.t = "num"

\* The log.warn calls of sanitizeCoordinates.
Warn(msg, c) == [msg |-> msg, coords |-> c]

\* A leaf emitted with its components in the order read.
LeafUnswapped(x, y) == CArr(<<x, y>>)

\* const [x, y] = coords; push(y); push(x)  (lines 151-154)
LeafSwapped(x, y) == CArr(<<y, x>>)

\* A test of coords[0] that never takes the list for nested.
IsNestedNever(c) == FALSE

\* Array.isArray(coords[0])  (line 141)
IsNested(c) == Len(c.items) > 0 /\ c.items[1].t = "arr"

\* The else branch of line 143 for an array c: the sanitized array and the warnings.
SanitizeLeaf(c) ==
    IF Len(c.items) \in {2, 3} /\ \A i \in 1 .. Len(c.items) : IsFinite(c.items[i])
    THEN LET zWarn == IF Len(c.items) = 3 /\ c.items[3] # CNum(0)
                      THEN <<Warn("non-zero z", c)>> ELSE <<>>
         IN IF c.items[1].n < 0
            THEN [out |-> LeafSwapped(c.items[1], c.items[2]), warn |-> zWarn]
            ELSE [out |-> CArr(<<>>), warn |-> zWarn \o <<Warn("negative x", c)>>]
    ELSE [out |-> CArr(<<>>), warn |-> <<Warn("failed to determine state", c)>>]

RECURSIVE Concat(_)
Concat(seqs) == IF seqs = <<>> THEN <<>> ELSE Head(seqs) \o Concat(Tail(seqs))

\* sanitizeCoordinates(coords): the value returned and the warnings logged, in order.
RECURSIVE sanitizeCoordinates(_)
sanitizeCoordinates(c) ==
    IF c.t # "arr" THEN [out |-> c, warn |-> <<>>]
    ELSE IF IsNested(c)
    THEN LET rs == [i \in 1 .. Len(c.items) |-> sanitizeCoordinates(c.items[i])]
         IN [out |-> CArr([i \in 1 .. Len(c.items) |-> rs[i].out]),
             warn |-> Concat([i \in 1 .. Len(c.items) |-> rs[i].warn])]
    ELSE SanitizeLeaf(c)

\* The nesting depth of a value: 0 for a non-array, 1 for a leaf array.
RECURSIVE Depth(_)
Depth(c) ==
    IF c.t # "arr" THEN 0
    ELSE IF c.items = <<>> THEN 1
    ELSE 1 + (CHOOSE d \in {Depth(c.items[i]) : i \in 1 .. Len(c.items)} :
                 \A i \in 1 .. Len(c.items) : Depth(c.items[i]) <= d)

\* The leaf arrays and non-array values geometries are built from.
West == CArr(<<CNum(-2), CNum(3)>>)
East == CArr(<<CNum(1), CNum(4)>>)
GeometrySamples ==
    { West, East,
      CArr(<<CNum(-2), CNum(3), CNum(0)>>),
      CArr(<<CNum(-2), CNum(3), CNum(7)>>),
      CArr(<<CNum(0), CNum(3)>>),
      CArr(<<CNum(1), CNum(3), CNum(7)>>),
      CArr(<<CNum(-2), CNaN>>),
      CArr(<<CNum(-2)>>),
      CArr(<<CNum(-2), CNum(3), CNum(0), CNum(0)>>),
      CArr(<<>>),
      CNum(5), CStr }

\* The values put beside a tree when it is nested into a list.
Siblings(c) == {c, CArr(<<CNum(-1), CNum(5)>>), East}

\* k copies of s
Rep(s, k) == [i \in 1 .. k |-> s]

\* A geometry's coordinates arrive from the converted shapefile.
ReadGeometry ==
    /\ buildPhase = "idle"
    /\ coords' \in GeometrySamples
    /\ buildPhase' = "input"
    /\ UNCHANGED <<keyVars, apiVars, parseVars, pipeVars, sanitizedCoords, warnings>>

\* The coordinates are one part of a deeper geometry: a ring of a polygon, a
\* part of a multi-part geometry.
Nest ==
    /\ buildPhase = "input"
    /\ coords.t = "arr"
    /\ Depth(coords) < MaxDepth
    /\ \E s \in Siblings(coords), k \in 0 .. MaxLen - 1, front \in BOOLEAN :
         coords' = CArr(IF front THEN Rep(s, k) \o <<coords>> ELSE <<coords>> \o Rep(s, k))
    /\ UNCHANGED <<keyVars, apiVars, parseVars, pipeVars, sanitizedCoords, warnings, buildPhase>>

\* geojsonToSites, line 183: coordinates: sanitizeCoordinates(feature.geometry.coordinates)
SanitizeCall ==
    /\ buildPhase = "input"
    /\ sanitizedCoords' = sanitizeCoordinates(coords).out
    /\ warnings' = sanitizeCoordinates(coords).warn
    /\ buildPhase' = "done"
    /\ UNCHANGED <<keyVars, apiVars, parseVars, pipeVars, coords>>

\* build.js run with api.js not started: nothing on disk yet, no process forked.
SanitizeInit ==
    /\ Init
    /\ cpuCount = 1
    /\ featuresFile = [state |-> "missing", value |-> JUndefined]
    /\ assetFiles = {}

SanitizeNext == ReadGeometry \/ Nest \/ SanitizeCall

SanitizeSpec == SanitizeInit /\ [][SanitizeNext]_vars

(***************************************************************************)
(* build.js: geojsonToSites (lines 176-198)                                *)
(***************************************************************************)

\* The longest record list explored.
MaxRecords == 3

\* An areaKm2 property: absent (undefined or null) or a number, in tenths of km2.
NoArea == [t |-> "none", n |-> 0]
Area(n) == [t |-> "num", n |-> n]

\* The truth value JavaScript gives an areaKm2 in the test of line 190.
AreaTruthy(a) == a.t = "num" /\ a.n # 0

\* A test of the site code that lets every record through.
HasSiteCodeAlways(code) == TRUE

\* if (!siteCode) { return; }  (line 186): "" stands for no site code.
HasSiteCode(code) == code # ""

\* A record of geojson.features after getProperties: whether it has a
\* geometry, the geometry's coordinates, the extracted siteCode and areaKm2.
Rec(geometry, coordinates, siteCode, areaKm2) ==
    [geometry |-> geometry, coordinates |-> coordinates, siteCode |-> siteCode,
     areaKm2 |-> areaKm2]

\* sites[siteCode] is set.
HasSite(ss, code) == \E i \in 1 .. Len(ss) : ss[i].key = code

\* Array.prototype.push on an array of coordinates.
Push(c, x) == CArr(Append(c.items, x))

\* The body of geojson.features.forEach for one record (lines 179-195).
AddRecordTo(ss, r) ==
    IF ~r.geometry THEN ss
    ELSE IF ~HasSiteCode(r.siteCode) THEN ss
    ELSE IF ~HasSite(ss, r.siteCode)
    THEN Append(ss, [key |-> r.siteCode,
                     properties |-> [siteCode |-> r.siteCode, areaKm2 |-> r.areaKm2],
                     coordinates |-> sanitizeCoordinates(r.coordinates).out])
    ELSE LET i == CHOOSE j \in 1 .. Len(ss) : ss[j].key = r.siteCode
         IN [ss EXCEPT
               ![i].properties.areaKm2 =
                   IF AreaTruthy(r.areaKm2) /\ AreaTruthy(@) THEN Area(@.n + r.areaKm2.n)
                   ELSE @,
               ![i].coordinates = Push(@, sanitizeCoordinates(r.coordinates).out)]

RECURSIVE SitesFrom(_, _)
SitesFrom(recs, ss) ==
    IF recs = <<>> THEN ss ELSE SitesFrom(Tail(recs), AddRecordTo(ss, Head(recs)))

\* geojsonToSites(geojson, getProperties): the entries of sites, in key order.
geojsonToSites(recs) == SitesFrom(recs, <<>>)

\* Two geometries.
LineOne == CArr(<<West, CArr(<<CNum(-1), CNum(5)>>)>>)
LineTwo == CArr(<<CArr(<<CNum(-3), CNum(6)>>)>>)

\* The records the lists are made of.
RecordSamples ==
    { Rec(FALSE, NoCoords, "X", Area(30)),
      Rec(TRUE, LineOne, "", Area(30)),
      Rec(TRUE, LineTwo, "X", Area(45)),
      Rec(TRUE, LineTwo, "X", NoArea) }
    \cup { Rec(TRUE, LineOne, code, a) :
              code \in {"X", "Y"}, a \in {NoArea, Area(0), Area(30), Area(45)} }

\* The converted source holds one more record.
AddRecord ==
    /\ parsePhase = "input"
    /\ Len(records) < MaxRecords
    /\ \E r \in RecordSamples : records' = Append(records, r)
    /\ UNCHANGED <<keyVars, apiVars, sanVars, pipeVars, sites, parsePhase>>

\* generateOutfiles, line 250: const sites = geojsonToSites(geojson, feature.getProperties)
ParseSites ==
    /\ parsePhase = "input"
    /\ sites' = geojsonToSites(records)
    /\ parsePhase' = "done"
    /\ UNCHANGED <<keyVars, apiVars, sanVars, pipeVars, records>>

SitesNext == AddRecord \/ ParseSites

SitesSpec == SanitizeInit /\ [][SitesNext]_vars

(***************************************************************************)
(* build.js: from the downloads to finalize                                *)
(***************************************************************************)

\* FEATURES: every feature's source and, where the source's archive holds
\* several shape files, the name of its file.
FEATURES ==
    << [key |-> "A", source |-> 1, geojsonFileName |-> ""],
       [key |-> "B", source |-> 2, geojsonFileName |-> "fb"] >>

FeatureIds == 1 .. Len(FEATURES)
SourceIds == 1 .. Len(SourceKeys)

\* What shp(data) resolves to: one feature collection, or one per shape file.
Collection(fs) == [kind |-> "collection", features |-> fs, files |-> <<>>]
NamedFile(name, fs) == [fileName |-> name, features |-> fs]
FileList(files) == [kind |-> "list", features |-> <<>>, files |-> files]

RecX == Rec(TRUE, LineOne, "X", NoArea)
RecY == Rec(TRUE, LineOne, "Y", NoArea)
RecNoCode == Rec(TRUE, LineOne, "", NoArea)

\* The conversions of each source's archive that the model explores.
Conversions(s) ==
    IF s = 1
    THEN { Collection(<<>>), Collection(<<RecNoCode>>), Collection(<<RecX>>),
           Collection(<<RecY, RecX, RecY>>) }
    ELSE { FileList(<<>>), FileList(<<NamedFile("fb", <<RecX>>)>>),
           FileList(<<NamedFile("other", <<RecX>>), NamedFile("fb", <<RecY, RecX>>)>>) }

\* generateOutfiles, lines 245-249: the feature's geojson, || {} when the
\* named file is not in the archive.
FeatureRecords(f, g) ==
    IF f.geojsonFileName = ""
    THEN g.features
    ELSE IF \E i \in 1 .. Len(g.files) : g.files[i].fileName = f.geojsonFileName
         THEN LET i == CHOOSE j \in 1 .. Len(g.files) :
                         /\ g.files[j].fileName = f.geojsonFileName
                         /\ \A k \in 1 .. (j - 1) : g.files[k].fileName # f.geojsonFileName
              IN g.files[i].features
         ELSE <<>>

\* Object.keys(sites)
SiteKeys(ss) == [i \in 1 .. Len(ss) |-> ss[i].key]

\* The site codes in ascending order.
SiteOrder == <<"X", "Y">>

Unsorted(keys) == keys

\* Array.prototype.sort on distinct site codes.
Sort(keys) == SelectSeq(SiteOrder, LAMBDA c : \E i \in 1 .. Len(keys) : keys[i] = c)

ReturnEndsLoop(rest) == <<>>

\* A return in the callback of forEach ends that call of the callback only:
\* the loop goes on with the remaining keys.
AfterReturn(rest) == rest

\* generateOutfiles, the callback of lines 237-267 for the features ids, on
\* st = the feature lists, the parsed sites, the log and the mkdir calls.
RECURSIVE OutfilesFrom(_, _, _)
OutfilesFrom(ids, geo, st) ==
    IF ids = <<>> THEN st
    ELSE LET i == Head(ids)
             f == FEATURES[i]
             g == geo[f.source]
             ss == geojsonToSites(FeatureRecords(f, g))
         IN IF g.kind = "none"
            THEN OutfilesFrom(AfterReturn(Tail(ids)), geo,
                              [st EXCEPT !.genLog[i] = "invalid source"])
            ELSE IF Len(ss) = 0
            THEN OutfilesFrom(AfterReturn(Tail(ids)), geo,
                              [st EXCEPT !.parsedSites[i] = ss,
                                         !.genLog[i] = "no sites"])
            ELSE OutfilesFrom(Tail(ids), geo,
                              [st EXCEPT !.featuresJSON[i] = @ \o Sort(SiteKeys(ss)),
                                         !.parsedSites[i] = ss,
                                         !.dirState[i] = "pending",
                                         !.genLog[i] = "count mismatch"])

generateOutfiles(geo) ==
    OutfilesFrom([i \in FeatureIds |-> i], geo,
                 [featuresJSON |-> featuresJSON, parsedSites |-> parsedSites,
                  genLog |-> genLog, dirState |-> dirState])

\* JSON.stringify(featuresJSON), as api.js parses it.
Stringified(fj) == JObj([i \in FeatureIds |-> Arr(FEATURES[i].key, fj[i])])

\* The mkdir and writeFile calls that have not settled.
Pending(ds, fs) ==
    Cardinality({i \in FeatureIds : ds[i] = "pending"})
    + Cardinality({pair \in DOMAIN fs : fs[pair] = "pending"})

AnyParsed(fsrc) == \E s \in SourceIds : fsrc[s].parsed

\* Lines 324 and 333: Object.keys(FEATURE_SOURCES).every(k => FEATURE_SOURCES[k].parsed)
AllParsed(fsrc) == \A s \in SourceIds : fsrc[s].parsed

\* Lines 324-327 and 333-336: generateOutfiles() and finalize(), both
\* synchronous, once every source is marked parsed.
GenerateAndFinalize(fsrc, geo) ==
    IF AllParsed(fsrc)
    THEN LET out == generateOutfiles(geo)
         IN /\ featuresJSON' = out.featuresJSON
            /\ parsedSites' = out.parsedSites
            /\ genLog' = out.genLog
            /\ dirState' = out.dirState
            /\ genRuns' = genRuns + 1
            /\ finRuns' = finRuns + 1
            /\ pendingAtFinalize' = Pending(out.dirState, fileState)
            /\ featuresFile' = [state |-> "json", value |-> Stringified(out.featuresJSON)]
    ELSE UNCHANGED <<keyVars, outVars, dirState, featuresFile>>

\* Lines 307-309: every download has finished; each source's archive is read.
DownloadsComplete ==
    /\ ~crashed
    /\ \A s \in SourceIds : srcState[s] = "fetched"
    /\ srcState' = [s \in SourceIds |-> "reading"]
    /\ UNCHANGED <<keyVars, clusterVars, featuresFile, assetFiles, sanVars, parseVars,
                   FEATURE_SOURCES, GEOJSON_SOURCES, outVars, writeVars, crashed>>

\* Line 315: the archive is read; shp(data) starts (line 317).
ReadDone(s) ==
    /\ ~crashed
    /\ srcState[s] = "reading"
    /\ srcState' = [srcState EXCEPT ![s] = "converting"]
    /\ UNCHANGED <<keyVars, clusterVars, featuresFile, assetFiles, sanVars, parseVars,
                   FEATURE_SOURCES, GEOJSON_SOURCES, outVars, writeVars, crashed>>

\* Lines 329-337: reading the archive failed; the source is marked parsed.
ReadFailed(s) ==
    /\ ~crashed
    /\ srcState[s] = "reading"
    /\ srcState' = [srcState EXCEPT ![s] = "readFailed"]
    /\ FEATURE_SOURCES' = [FEATURE_SOURCES EXCEPT ![s].parsed = TRUE]
    /\ GenerateAndFinalize(FEATURE_SOURCES', GEOJSON_SOURCES)
    /\ UNCHANGED <<keyVars, clusterVars, assetFiles, sanVars, parseVars, GEOJSON_SOURCES,
                   fileState, crashed>>

\* Lines 317-328: shp(data) resolved.
ConvertDone(s) ==
    /\ ~crashed
    /\ srcState[s] = "converting"
    /\ srcState' = [srcState EXCEPT ![s] = "converted"]
    /\ \E geojson \in Conversions(s) :
         GEOJSON_SOURCES' = [GEOJSON_SOURCES EXCEPT ![s] = geojson]
    /\ FEATURE_SOURCES' = [FEATURE_SOURCES EXCEPT ![s].parsed = TRUE]
    /\ GenerateAndFinalize(FEATURE_SOURCES', GEOJSON_SOURCES')
    /\ UNCHANGED <<keyVars, clusterVars, assetFiles, sanVars, parseVars, fileState, crashed>>

\* Line 317 with lines 10-12: shp(data) rejected; nothing handles the
\* rejection, and the unhandledRejection listener throws.
ConvertRejected(s) ==
    /\ ~crashed
    /\ srcState[s] = "converting"
    /\ srcState' = [srcState EXCEPT ![s] = "rejected"]
    /\ crashed' = TRUE
    /\ UNCHANGED <<keyVars, clusterVars, featuresFile, assetFiles, sanVars, parseVars,
                   FEATURE_SOURCES, GEOJSON_SOURCES, outVars, writeVars>>

\* generateFeatureSiteFilesDirectory, lines 209-216: mkdir settled; on success a
\* writeFile starts for every site.
MkdirDone(i) ==
    /\ ~crashed
    /\ dirState[i] = "pending"
    /\ \E ok \in BOOLEAN :
         /\ dirState' = [dirState EXCEPT ![i] = IF ok THEN "made" ELSE "failed"]
         /\ fileState' = [pair \in DOMAIN fileState |->
                            IF ok /\ pair[1] = i /\ HasSite(parsedSites[i], pair[2])
                            THEN "pending" ELSE fileState[pair]]
    /\ UNCHANGED <<keyVars, clusterVars, featuresFile, assetFiles, sanVars, parseVars,
                   sourceVars, outVars, crashed>>

\* generateFeatureSiteFilesDirectory, lines 218-223: one writeFile settled.
WriteDone(i, siteCode) ==
    /\ ~crashed
    /\ fileState[<<i, siteCode>>] = "pending"
    /\ \E ok \in BOOLEAN :
         /\ fileState' = [fileState EXCEPT ![<<i, siteCode>>] =
                            IF ok THEN "written" ELSE "failed"]
         /\ assetFiles' = IF ok THEN assetFiles \cup {<<FEATURES[i].key, siteCode>>}
                          ELSE assetFiles
    /\ UNCHANGED <<keyVars, clusterVars, featuresFile, sanVars, parseVars, sourceVars, outVars,
                   dirState, crashed>>

\* build.js starts with ./assets emptied (line 272); features.json may be
\* left from an earlier run.
BuildInit ==
    /\ Init
    /\ cpuCount = 1
    /\ assetFiles = {}
    /\ featuresFile \in { [state |-> "missing", value |-> JUndefined],
                          [state |-> "json", value |-> JObj(<<Arr("A", <<"X">>)>>)] }

BuildNext ==
    \/ DownloadsComplete
    \/ \E s \in SourceIds : ReadDone(s)
    \/ \E s \in SourceIds : ReadFailed(s)
    \/ \E s \in SourceIds : ConvertDone(s)
    \/ \E s \in SourceIds : ConvertRejected(s)
    \/ \E i \in FeatureIds : MkdirDone(i)
    \/ \E i \in FeatureIds, siteCode \in SiteCodes : WriteDone(i, siteCode)

BuildSpec == BuildInit /\ [][BuildNext]_vars


(***************************************************************************)
(* api.js: the cache keys of cacheAllAssets                                *)
(***************************************************************************)

MaxKeys == 2

\* Feature names and site codes as a features.json may hold them, some with
\* a "." and one equal to a key of the cluster state.
KeyFeatures == {"", "A", "AB", "A.B"}
KeySiteCodes == {"X", "BX", "B.X", "features"}

\* The names above that contain a ".".
HasDot(name) == name \in {"A.B", "B.X"}

\* The keys of the cluster state in the cache (lines 43-63).
ClusterKeys == {"initialized", "features"}

\* cacheAllAssets, lines 76-78: the key of one pair of the registry.
KeyAsset ==
    /\ Len(assetKeys) < MaxKeys
    /\ \E feature \in KeyFeatures, siteCode \in KeySiteCodes :
         assetKeys' = Append(assetKeys, [feature |-> feature, siteCode |-> siteCode,
                                         assetKey |-> getAssetKey(feature, siteCode)])
    /\ UNCHANGED <<apiVars, buildVars>>

KeyNext == KeyAsset

KeySpec == SanitizeInit /\ [][KeyNext]_vars

\* Every read, conversion, mkdir and writeFile settles, and the event loop
\* runs the callback of whatever has settled.
BuildFairSpec ==
    /\ BuildSpec
    /\ WF_vars(DownloadsComplete)
    /\ \A s \in SourceIds : WF_vars(ReadDone(s) \/ ReadFailed(s))
    /\ \A s \in SourceIds : WF_vars(ConvertDone(s) \/ ConvertRejected(s))
    /\ \A i \in FeatureIds : WF_vars(MkdirDone(i))
    /\ \A i \in FeatureIds, siteCode \in SiteCodes : WF_vars(WriteDone(i, siteCode))

(***************************************************************************)
(* Properties                                                              *)
(***************************************************************************)

InSeq(m, seq) == \E i \in 1 .. Len(seq) : seq[i] = m

\* The messages the master has handled: sent, and no longer in its inbox.
Handled == SubSeq(sent, 1, Len(sent) - Len(inbox))

KeyOf(pair) == getAssetKey(pair[1], pair[2])

StoresBy(w) == {e \in BagToSet(storeLog) : e.by = w}

\* The positions of a worker that found 'initialized' true (or could not read it).
ReaderPositions == {"start", "getFeatures", "listening", "rejected"}

IsInitialized == Truthy(CacheRead("initialized"))

\* ./features.json as the warmer finds it when it runs cacheFeatures.
RegistryFile == IF 1 \in registryLoads THEN loadedFile[1] ELSE featuresFile

\* C1: at most one worker ever calls cacheAllAssets; whenever a worker other
\* than the first exists, 'initialized' is true in the cache, so that is what it
\* reads, it stays off the warm-up path and it issues no cache store.
C1_SinglePopulation ==
    /\ Cardinality(populated) <= 1
    /\ \A w \in forked \ {1} :
         /\ IsInitialized
         /\ pc[w] \in ReaderPositions
         /\ StoresBy(w) = {}

C1_Witness ==
    /\ Cardinality(forked) = 3
    /\ populated = {1}
    /\ \A w \in forked \ {1} : pc[w] = "listening"

\* C2: a worker that has called api.listen implies that 'initialized' is true
\* and that 'features' is stored in the shared cache.
C2_ListenOnlyWhenInitialized ==
    \A w \in Workers :
        pc[w] = "listening" => IsInitialized /\ "features" \in DOMAIN cache

C2_Witness == pc[1] = "listening" /\ inbox # <<>>

\* C3: a sibling worker exists only after the master has handled the warmer's
\* cacheIsReady; that message is sent only after the acknowledged store of
\* 'initialized' = true; and that store happens only after every load settled.
C3_ForkAfterReady ==
    /\ forked \ {1} # {} => InSeq(ReadyMsg(1), Handled)
    /\ InSeq(ReadyMsg(1), sent) =>
         /\ IsInitialized
         /\ [by |-> 1, key |-> "initialized"] \in BagToSet(storeLog)
    /\ IsInitialized => 1 \in populated /\ Settled(1) /\ report[1].done

C3_Witness ==
    /\ forked \ {1} # {}
    /\ Len(plan[1]) >= 2
    /\ \E i \in 1 .. Len(results[1]) : results[1][i] = "rejected"

\* C4: once the master has handled cacheIsReady the workers forked are exactly
\* CPU_COUNT (CPU_COUNT - 1 besides the warmer, none when CPU_COUNT = 1) and
\* before that only the warmer; each further worker finds 'initialized' true,
\* never loads the registry or the assets and never sends a message.
C4_ForksExactlyCpuCount ==
    /\ InSeq(ReadyMsg(1), Handled) => forked = 1 .. cpuCount
    /\ ~InSeq(ReadyMsg(1), Handled) => forked \subseteq {1}
    /\ \A w \in forked \ {1} :
         /\ IsInitialized
         /\ w \notin populated /\ w \notin registryLoads
         /\ pc[w] \in ReaderPositions
         /\ \A i \in 1 .. Len(sent) : sent[i].from # w

C4_Witness ==
    /\ cpuCount = 3
    /\ forked = {1, 2, 3}
    /\ \A w \in {2, 3} : pc[w] = "listening"
    /\ Len(sent) = 1

C4_WitnessSingleCpu ==
    /\ cpuCount = 1
    /\ InSeq(ReadyMsg(1), Handled)
    /\ forked = {1}

RegistryAbsent == RegistryFile.state \in {"missing", "unparsable"}

MasterHalted == masterState = "exited" /\ masterExit > 0

C5_Safe ==
    RegistryAbsent =>
        /\ forked \subseteq {1}
        /\ \A w \in Workers : pc[w] # "listening"
        /\ 1 \in registryLoads =>
             /\ InSeq(ErrorMsg(1), sent)
             /\ pc[1] = "exited" /\ exitCode[1] = 1
        /\ masterState = "exited" => masterExit > 0

\* C5: with features.json missing or unparsable, the warmer that loads it sends
\* the error and exits without listening, no further worker is forked, no worker
\* ever listens, and the master eventually halts with a non-zero status.
C5_MissingRegistryIsFatal ==
    /\ []C5_Safe
    /\ (RegistryAbsent /\ 1 \in registryLoads) ~> MasterHalted

C5_Witness ==
    /\ RegistryAbsent
    /\ MasterHalted
    /\ pc[1] = "exited"
    /\ forked = {1}

RegistryMalformed ==
    RegistryFile.state = "json" /\ ~IsValidRegistry(RegistryFile.value)

\* C6: a features.json that parses but is no mapping from feature to array of
\* site codes is fatal like a missing file: the warmer that loads it sends the
\* error, no asset is read or cached, 'initialized' is never set, nobody listens.
C6_MalformedRegistryIsFatal ==
    (RegistryMalformed /\ 1 \in registryLoads) =>
        /\ InSeq(ErrorMsg(1), sent)
        /\ assetReads = {}
        /\ ~IsInitialized
        /\ \A w \in Workers : pc[w] # "listening"

\* C7: for every registry, a worker running cacheAllAssets attempts every pair;
\* a pair that failed is one whose own file is missing or whose own store was
\* issued and failed; every fulfilled pair has its entry in the cache; and the
\* counts are taken only when every load has settled, in whatever order.
C7_SettleAll ==
    \A w \in populated :
        (FeaturesParsed(RegistryFile) /\ IsValidRegistry(RegistryFile.value) /\ ~threw[w]) =>
            /\ plan[w] = RegistryPairs(RegistryFile.value)
            /\ \A i \in 1 .. Len(plan[w]) :
                 /\ <<w, plan[w][i]>> \in assetReads
                 /\ results[w][i] = "fulfilled" =>
                      /\ KeyOf(plan[w][i]) \in DOMAIN cache
                      /\ cache[KeyOf(plan[w][i])] = BufferToJSON(AssetBytes(plan[w][i]))
                 /\ results[w][i] = "rejected" =>
                      \/ plan[w][i] \notin assetFiles
                      \/ [by |-> w, key |-> KeyOf(plan[w][i])] \in BagToSet(storeLog)
                 /\ (plan[w][i] \notin assetFiles) => results[w][i] # "fulfilled"
            /\ report[w].done => Settled(w)

C7_Witness ==
    /\ report[1].done
    /\ Len(plan[1]) = 3
    /\ results[1][1] = "rejected"
    /\ results[1][2] = "fulfilled"
    /\ results[1][3] = "rejected"
    /\ plan[1][3] \in assetFiles

\* C8: when warm-up has settled, succeeded + failed is the number of pairs of
\* the registry, and a pair's key is in the cache exactly when it was counted
\* as succeeded.
C8_CountsMatchCache ==
    \A w \in Workers :
        (report[w].done /\ IsValidRegistry(RegistryFile.value)) =>
            /\ report[w].succeeded + report[w].failed = Len(RegistryPairs(RegistryFile.value))
            /\ report[w].succeeded =
                 Cardinality({i \in 1 .. Len(RegistryPairs(RegistryFile.value)) :
                                KeyOf(RegistryPairs(RegistryFile.value)[i]) \in DOMAIN cache})
            /\ \A i \in 1 .. Len(plan[w]) :
                 KeyOf(plan[w][i]) \in DOMAIN cache <=> results[w][i] = "fulfilled"

C8_Witness ==
    /\ report[1].done
    /\ report[1].succeeded = 1
    /\ report[1].failed = 1
    /\ RegistryFile.value = JObj(<<Arr("A", <<"X", "Y">>)>>)
    /\ assetFiles = {<<"A", "X">>}

SomeLoadFailed(w) == \E i \in 1 .. Len(results[w]) : results[w][i] = "rejected"

\* C9: a worker whose loads have settled never sends the error and never exits,
\* whatever the number of failures; with one or more failed loads (all of them
\* included) the warmer goes on to store 'initialized', signal cacheIsReady and
\* listen, and stops short of that only when the store of 'initialized' or the
\* read of 'features' itself returns an error.
C9_FailuresNotFatal ==
    /\ [](\A w \in Workers :
            report[w].done => ~InSeq(ErrorMsg(w), sent) /\ exitCode[w] = -1 /\ pc[w] # "exited")
    /\ (pc[1] = "awaitAssets" /\ Settled(1) /\ SomeLoadFailed(1))
         ~> \/ pc[1] = "rejected"
            \/ /\ pc[1] = "listening"
               /\ IsInitialized
               /\ InSeq(ReadyMsg(1), sent)

C9_Witness ==
    /\ report[1].done
    /\ report[1].succeeded = 0
    /\ report[1].failed = 3
    /\ pc[1] = "listening"
    /\ IsInitialized
    /\ InSeq(ReadyMsg(1), sent)

\* C10: the step of verifyOrBuildCache taken when 'initialized' is already true
\* loads no registry, reads no asset, issues no cache store, sends nothing,
\* leaves the cache as it is and returns true (the caller goes on to serve),
\* unless the read of 'initialized' itself returns an error.
C10_WarmupIdempotent ==
    [][\A w \in Workers :
         (pc[w] = "start" /\ IsInitialized /\ pc'[w] # "start") =>
             /\ pc'[w] \in {"getFeatures", "rejected"}
             /\ cache' = cache
             /\ UNCHANGED <<keyVars, ghostVars, warmVars, sent, inbox>>]_vars

C10_Witness ==
    \E w \in forked \ {1} :
        /\ pc[w] = "getFeatures"
        /\ StoresBy(w) = {}
        /\ w \notin registryLoads
        /\ \E p \in AssetPairs : KeyOf(p) \in DOMAIN cache

\* The cache.store calls issued for a key, by any process.
StoresOf(key) == {e \in BagToSet(storeLog) : e.key = key}

\* The last request was a leaf request for a pair of the stored registry.
LeafForRegistryPair ==
    /\ http.route = "asset"
    /\ IsValidRegistry(CacheRead("features"))
    /\ InSeq(<<http.feature, http.siteCode>>, RegistryPairs(CacheRead("features")))

\* C11: the cache is write-once.  No key has more than one cache.store issued
\* for it, and once 'initialized' is stored as true no step of any process
\* (warmer, sibling, request handler) changes the cache, issues a store, reads
\* an asset file or the registry file; in particular a leaf request that finds
\* no entry leaves the entry absent.
C11_WriteOnce ==
    [][/\ \A e \in BagToSet(storeLog') :
            StoresOf(e.key)' = {e} /\ CopiesIn(e, storeLog') = 1
       /\ IsInitialized =>
            /\ cache' = cache
            /\ UNCHANGED <<keyVars, storeLog, assetReads, registryLoads>>]_vars

\* A valid pair was asked for after warm-up, nothing was cached for it, the
\* answer was 404 and the entry is still absent.
C11_Witness ==
    /\ IsInitialized
    /\ LeafForRegistryPair
    /\ http.phase = "done"
    /\ http.status = 404
    /\ getAssetKey(http.feature, http.siteCode) \notin DOMAIN cache
    /\ \E p \in AssetPairs : KeyOf(p) \in DOMAIN cache
    /\ forked = 1 .. cpuCount
    /\ cpuCount > 1

\* The registry of the cluster: the snapshot stored under 'features'.
Registry == CacheRead("features")

\* The feature is a Registry key and the site code is in Registry[feature].
ValidPair(feature, siteCode) ==
    /\ Includes(Keys(Registry), feature)
    /\ Registry.kind = "obj"
    /\ EntryOf(Registry, feature).isArr
    /\ Includes(EntryOf(Registry, feature).items, siteCode)

\* C12: an answered leaf request has status 400 exactly when its feature is no
\* Registry key or its site code is not in Registry[feature], and then the
\* cache was not read; 404 exactly when the pair is valid and the cache read
\* found no entry or returned an error; 200 in every other case.
C12_LeafStatus ==
    (http.phase = "done" /\ http.route = "asset") =>
        LET valid == ValidPair(http.feature, http.siteCode)
            entry == getAssetKey(http.feature, http.siteCode) \in DOMAIN cache
        IN /\ http.status = 400 <=> ~valid
           /\ http.status = 400 => http.cacheReads = 0
           /\ http.status = 404 <=> (valid /\ (~entry \/ http.readError))
           /\ http.status = 200 <=> (valid /\ entry /\ ~http.readError)

\* A known feature asked for with a site code it does not have: 400, cache unread.
C12_Witness ==
    /\ http.phase = "done"
    /\ http.route = "asset"
    /\ Includes(Keys(Registry), http.feature)
    /\ ~ValidPair(http.feature, http.siteCode)
    /\ http.status = 400
    /\ http.cacheReads = 0
    /\ \E p \in AssetPairs : KeyOf(p) \in DOMAIN cache

\* gzip as the earlier api.js applied it before storing: a header in front of
\* the (here uncompressed) payload, so that gzipped bytes differ from plain ones.
Gzip(bytes) == <<31, 139>> \o bytes

\* gunzip: the payload behind the header.
Gunzip(bytes) == SubSeq(bytes, 3, Len(bytes))

\* The payload a client decodes from the response, going by Content-Encoding.
DecodedBody ==
    IF http.contentEncoding = "gzip" THEN Gunzip(http.body.bytes) ELSE http.body.bytes

\* C13: once 'initialized' is stored, a leaf request for a pair of the
\* Registry is answered 200 with a body that decodes to the bytes of the
\* pair's asset file, or 404, never 500; and while it waits for the cache
\* the step that answers it is enabled.
C13_LeafAlwaysAnswered ==
    (IsInitialized /\ LeafForRegistryPair) =>
        /\ http.phase = "done" =>
              /\ http.status \in {200, 404}
              /\ http.status = 200 =>
                    /\ http.body.kind = "bytes"
                    /\ DecodedBody = AssetBytes(<<http.feature, http.siteCode>>)
                    /\ <<http.feature, http.siteCode>> \in assetFiles
        /\ http.phase = "reading" => ENABLED GetAssetRespond(http.by)

\* A pair of the Registry was asked for after warm-up and answered 200.
C13_Witness ==
    /\ IsInitialized
    /\ LeafForRegistryPair
    /\ http.phase = "done"
    /\ http.status = 200
    /\ http.body.bytes = AssetBytes(<<http.feature, http.siteCode>>)

\* C14: every 200 answer of the leaf route carries Content-Encoding: gzip and,
\* as its body, the bytes stored for the pair, which are the gzipped bytes of
\* the pair's asset file, compressed at warm-up.
C14_ServedCompressed ==
    (http.phase = "done" /\ http.route = "asset" /\ http.status = 200) =>
        LET pair == <<http.feature, http.siteCode>>
        IN /\ http.contentEncoding = "gzip"
           /\ CacheRead(KeyOf(pair)) = BufferToJSON(Gzip(AssetBytes(pair)))
           /\ http.body.bytes = Gzip(AssetBytes(pair))

\* C15: the answers of the catalog routes follow from the Registry alone.  The
\* health route answers 200; the feature list answers 200 with the Registry
\* keys; the per-feature route answers 200 with Registry[feature] in stored
\* order for a Registry key and 400 for any other name; none answers 500.
C15_CatalogFromRegistry ==
    http.phase = "done" =>
        /\ http.route = "health" => http.status = 200
        /\ http.route = "list" =>
              /\ http.status = 200
              /\ http.body = ListBody("features", Keys(Registry))
        /\ http.route = "feature" =>
              IF Includes(Keys(Registry), http.feature)
              THEN /\ http.status = 200
                   /\ http.body = ListBody("siteCodes", EntryOf(Registry, http.feature).items)
              ELSE http.status = 400

\* The sites of a feature with two sites were listed although an asset of the
\* Registry failed to load.
C15_Witness ==
    /\ http.phase = "done"
    /\ http.route = "feature"
    /\ http.status = 200
    /\ Len(http.body.list) = 2
    /\ \E i \in 1 .. Len(RegistryPairs(Registry)) :
           KeyOf(RegistryPairs(Registry)[i]) \notin DOMAIN cache

\* C16: the registry of every serving worker is the value stored under
\* 'features', which is what the warmer parsed from ./features.json, whatever
\* has become of the file since.
C16_SameRegistry ==
    \A w \in Workers :
        pc[w] = "listening" =>
            /\ features[w] = Registry
            /\ features[w] = loadedFile[1].value
            /\ \A v \in Workers : pc[v] = "listening" => features[w] = features[v]

\* A sibling serves with the warmer's registry while ./features.json on disk
\* no longer holds it.
C16_Witness ==
    \E w \in Workers \ {1} :
        /\ pc[w] = "listening"
        /\ pc[1] = "listening"
        /\ featuresFile # loadedFile[1]
        /\ features[w] = loadedFile[1].value
        /\ features[w] \in ValidRegistries \ {JObj(<<>>)}

IsList(c) == c.t = "arr" /\ \E i \in 1 .. Len(c.items) : c.items[i].t = "arr"

\* The leaf arrays of a coordinate tree, first to last.
RECURSIVE LeavesOf(_)
LeavesOf(c) ==
    IF c.t # "arr" THEN <<>>
    ELSE IF IsList(c) THEN Concat([i \in 1 .. Len(c.items) |-> LeavesOf(c.items[i])])
    ELSE <<c>>

\* A leaf [x, y] or [x, y, z] of finite numbers.
IsCoordinate(c) ==
    /\ c.t = "arr"
    /\ Len(c.items) \in {2, 3}
    /\ \A i \in 1 .. Len(c.items) : c.items[i].t = "num"

\* A coordinate with x < 0, and one with x >= 0.
IsWestLeaf(c) == IsCoordinate(c) /\ c.items[1].n < 0
IsEastLeaf(c) == IsCoordinate(c) /\ c.items[1].n >= 0

HasNonZeroZ(c) == Len(c.items) = 3 /\ c.items[3].n # 0

IsEmitted(c) == c.items # <<>>

IsZWarningOfWestLeaf(w) == w.msg = "non-zero z" /\ IsWestLeaf(w.coords)

\* [y, x] for each leaf of a sequence of coordinates.
Flipped(leaves) ==
    [i \in 1 .. Len(leaves) |-> CArr(<<leaves[i].items[2], leaves[i].items[1]>>)]

\* C18: the leaves sanitizeCoordinates emits are, in order, [y, x] for each
\* leaf [x, y] or [x, y, z] of finite numbers with x < 0 of the input, two
\* components each; a non-zero z of such a leaf is logged as a warning and
\* changes nothing else.
C18_WestLeafFlipped ==
    buildPhase = "done" =>
        LET west == SelectSeq(LeavesOf(coords), IsWestLeaf)
        IN /\ SelectSeq(LeavesOf(sanitizedCoords), IsEmitted) = Flipped(west)
           /\ SelectSeq(warnings, IsZWarningOfWestLeaf)
                = [i \in 1 .. Len(SelectSeq(west, HasNonZeroZ)) |->
                       Warn("non-zero z", SelectSeq(west, HasNonZeroZ)[i])]

\* A leaf [-2, 3, 7] inside a list came out as [3, -2], with the warning.
C18_Witness ==
    /\ buildPhase = "done"
    /\ IsList(coords)
    /\ \E i \in 1 .. Len(coords.items) :
          /\ coords.items[i] = CArr(<<CNum(-2), CNum(3), CNum(7)>>)
          /\ sanitizedCoords.items[i] = CArr(<<CNum(3), CNum(-2)>>)
    /\ warnings # <<>>

IsNegativeXWarning(w) == w.msg = "negative x"

\* C19: for a list of coordinates, the sanitized list holds [y, x] for the
\* coordinates with x < 0, in order, and nothing for those with x >= 0, each
\* of which is logged as a warning.
C19_EastLeafLeavesNoEntry ==
    (/\ buildPhase = "done"
     /\ IsList(coords)
     /\ \A i \in 1 .. Len(coords.items) : IsCoordinate(coords.items[i])) =>
        /\ sanitizedCoords = CArr(Flipped(SelectSeq(coords.items, IsWestLeaf)))
        /\ Len(SelectSeq(warnings, IsNegativeXWarning))
             = Len(SelectSeq(coords.items, IsEastLeaf))

\* Every leaf of the tree is a coordinate with x < 0, every list is non-empty.
RECURSIVE AllValid(_)
AllValid(c) ==
    /\ c.t = "arr"
    /\ IF IsList(c)
       THEN \A i \in 1 .. Len(c.items) : AllValid(c.items[i])
       ELSE IsWestLeaf(c)

\* The shape of a tree: its lists, with every leaf replaced by the same mark.
RECURSIVE Shape(_)
Shape(c) ==
    IF IsList(c) THEN CArr([i \in 1 .. Len(c.items) |-> Shape(c.items[i])])
    ELSE CStr

\* C20: for a tree whose leaves are all coordinates with x < 0, the result
\* has the same shape (depth, length of every list) and its leaves are the
\* flipped leaves of the input in the same order, with no coordinate dropped;
\* an input that is no array is returned as it is, without a warning.
C20_ShapePreserved ==
    buildPhase = "done" =>
        /\ AllValid(coords) =>
              /\ Shape(sanitizedCoords) = Shape(coords)
              /\ Depth(sanitizedCoords) = Depth(coords)
              /\ LeavesOf(sanitizedCoords) = Flipped(LeavesOf(coords))
        /\ coords.t # "arr" => (sanitizedCoords = coords /\ warnings = <<>>)

\* A tree three levels deep with two entries in a list, all leaves valid, was sanitized.
C20_Witness ==
    /\ buildPhase = "done"
    /\ AllValid(coords)
    /\ Depth(coords) >= 3
    /\ \E i \in 1 .. Len(coords.items) : Len(coords.items[i].items) = 2
    /\ Len(LeavesOf(sanitizedCoords)) >= 2
    /\ sanitizedCoords # coords

\* The records that geojsonToSites keeps for a site code, in record order.
RECURSIVE RecordsOf(_, _)
RecordsOf(recs, code) ==
    IF recs = <<>> THEN <<>>
    ELSE IF Head(recs).geometry /\ Head(recs).siteCode = code
    THEN <<Head(recs)>> \o RecordsOf(Tail(recs), code)
    ELSE RecordsOf(Tail(recs), code)

RECURSIVE SumArea(_)
SumArea(recs) == IF recs = <<>> THEN 0 ELSE Head(recs).areaKm2.n + SumArea(Tail(recs))

\* The entries of sites stored under a site code.
EntriesOf(code) == {i \in 1 .. Len(sites) : sites[i].key = code}

\* C21: for every site code with records, sites has exactly one entry; its
\* coordinates are the first record's sanitized coordinates followed by the
\* sanitized coordinates of each later record, in record order; and when
\* every one of the records carries an areaKm2, its areaKm2 is their sum.
C21_MergeAppendsAndSums ==
    parsePhase = "done" =>
        \A code \in {"X", "Y"} :
            LET rs == RecordsOf(records, code)
            IN rs # <<>> =>
                 /\ Cardinality(EntriesOf(code)) = 1
                 /\ \A i \in EntriesOf(code) :
                       /\ sites[i].coordinates =
                            CArr(sanitizeCoordinates(rs[1].coordinates).out.items
                                 \o [k \in 1 .. Len(rs) - 1 |->
                                        sanitizeCoordinates(rs[k + 1].coordinates).out])
                       /\ (\A k \in 1 .. Len(rs) : rs[k].areaKm2.t = "num") =>
                             sites[i].properties.areaKm2 = Area(SumArea(rs))

\* C22: the keys of sites are exactly the site codes of the records that have
\* a geometry and a site code, each once; no entry is stored for a record
\* without site code; every entry's properties.siteCode is its key.
C22_KeysAreResolvedSiteCodes ==
    parsePhase = "done" =>
        /\ {sites[i].key : i \in 1 .. Len(sites)}
             = {records[k].siteCode : k \in {j \in 1 .. Len(records) :
                                                records[j].geometry
                                                /\ records[j].siteCode # ""}}
        /\ \A i, j \in 1 .. Len(sites) : sites[i].key = sites[j].key => i = j
        /\ \A i \in 1 .. Len(sites) :
              sites[i].properties.siteCode = sites[i].key /\ sites[i].key # ""

\* A list with a record without geometry, one without site code and one kept.
C22_Witness ==
    /\ parsePhase = "done"
    /\ Len(sites) = 1
    /\ \E i, j, k \in 1 .. Len(records) :
          /\ ~records[i].geometry
          /\ records[j].geometry /\ records[j].siteCode = ""
          /\ records[k].geometry /\ records[k].siteCode = sites[1].key

(***************************************************************************)
(* build.js: the pipeline                                                  *)
(***************************************************************************)

\* The keys of a registry document.
RegistryKeys(v) == {v.entries[i].k : i \in 1 .. Len(v.entries)}

\* The features of which generateOutfiles parsed at least one site.
FeaturesWithSites == {FEATURES[i].key : i \in {j \in FeatureIds : Len(parsedSites[j]) > 0}}

\* C23: once finalize has written features.json, its keys are exactly the
\* features with at least one parsed site; a feature with zero sites or with
\* no converted source is no key.
C23_KeysAreFeaturesWithSites ==
    finRuns > 0 => RegistryKeys(featuresFile.value) = FeaturesWithSites

\* The sites of feature i in the converted geojson of its source.
SitesOfFeature(i) ==
    geojsonToSites(FeatureRecords(FEATURES[i], GEOJSON_SOURCES[FEATURES[i].source]))

SeqSet(seq) == {seq[k] : k \in 1 .. Len(seq)}

\* C24: when generateOutfiles has run, a feature with zero sites or without a
\* converted source has no site list and no directory, and that is all the
\* abort does: every feature with sites has its site codes listed and its
\* directory and files being generated, and finalize has run.
C24_AbortIsPerFeature ==
    genRuns > 0 =>
        /\ finRuns = genRuns
        /\ featuresFile = [state |-> "json", value |-> Stringified(featuresJSON)]
        /\ \A i \in FeatureIds :
             IF Len(SitesOfFeature(i)) = 0
             THEN /\ featuresJSON[i] = <<>>
                  /\ dirState[i] = "none"
                  /\ genLog[i] \in {"invalid source", "no sites"}
                  /\ \A c \in SiteCodes : fileState[<<i, c>>] = "none"
             ELSE /\ SeqSet(featuresJSON[i]) = SeqSet(SiteKeys(SitesOfFeature(i)))
                  /\ dirState[i] # "none"
                  /\ dirState[i] = "made" =>
                        \A c \in SeqSet(featuresJSON[i]) : fileState[<<i, c>>] # "none"

\* The first feature was aborted and the second has its list and its file.
C24_Witness ==
    /\ genRuns > 0
    /\ genLog[1] = "no sites"
    /\ featuresJSON[2] = <<"X", "Y">>
    /\ <<"B", "Y">> \in assetFiles

\* The place of a site code in the ascending order.
Rank(c) == CHOOSE k \in 1 .. Len(SiteOrder) : SiteOrder[k] = c

\* C25: every list of features.json written by finalize is in ascending
\* order, has no site code twice and holds exactly the keys of the feature's
\* sites, also when several records share a site code.
C25_ListsSortedDistinct ==
    finRuns > 0 =>
        \A i \in FeatureIds :
            LET items == featuresFile.value.entries[i].items
            IN /\ featuresFile.value.entries[i].k = FEATURES[i].key
               /\ \A a, b \in 1 .. Len(items) : a < b => Rank(items[a]) < Rank(items[b])
               /\ SeqSet(items) = SeqSet(SiteKeys(SitesOfFeature(i)))
               /\ Len(items) = Len(SitesOfFeature(i))

\* Three records, two of them of site Y, the first of them before site X.
C25_Witness ==
    /\ finRuns > 0
    /\ GEOJSON_SOURCES[1] = Collection(<<RecY, RecX, RecY>>)
    /\ featuresFile.value.entries[1].items = <<"X", "Y">>

\* The read and the conversion of source s are over, whatever their outcome.
SourceOver(s) == srcState[s] \in {"converted", "readFailed", "rejected"}

\* C26: generateOutfiles is started only when the read and conversion of every
\* source is over, never more than once, and once they are all over it has
\* been started exactly once.
C26_BarrierThenOnce ==
    /\ genRuns <= 1
    /\ genRuns > 0 => \A s \in SourceIds : SourceOver(s)
    /\ (\A s \in SourceIds : SourceOver(s)) => genRuns = 1

\* The asset files of feature i that have been written.
WrittenFiles(i) == {c \in SiteCodes : fileState[<<i, c>>] = "written"}

\* Every mkdir and writeFile of feature i has settled.
WritesOver(i) ==
    /\ dirState[i] \in {"made", "failed"}
    /\ \A c \in SiteCodes : fileState[<<i, c>>] # "pending"

\* C28: finalize writes features.json only when no mkdir and no writeFile is
\* still pending, and for a feature whose writes are over generateOutfiles has
\* logged success exactly when as many files were written as sites parsed.
C28_DoneAfterWrites ==
    /\ finRuns > 0 => pendingAtFinalize = 0
    /\ \A i \in FeatureIds :
         (Len(parsedSites[i]) > 0 /\ WritesOver(i)) =>
            (genLog[i] = "success" <=> Cardinality(WrittenFiles(i)) = Len(parsedSites[i]))

\* C29: once the downloads are complete, generateOutfiles and finalize
\* eventually have run exactly once, with features.json written, whether the
\* sources are read and converted or fail.
C29_EventuallyFinalized ==
    (\A s \in SourceIds : srcState[s] = "reading")
        ~> (genRuns = 1 /\ finRuns = 1
            /\ featuresFile = [state |-> "json", value |-> Stringified(featuresJSON)])

(***************************************************************************)
(* api.js: the warmer's signal and the cache keys                          *)
(***************************************************************************)

\* The messages worker w has sent to the master.
SentBy(w) == {i \in 1 .. Len(sent) : sent[i].from = w}

\* C27: the first-forked worker never sends more than one message, and once
\* forked it eventually has sent one, the error or cacheIsReady, whatever the
\* outcome of the registry load, the asset loads and the cache stores.
C27_WarmerSignalsOnce ==
    /\ [](Cardinality(SentBy(1)) <= 1)
    /\ (1 \in forked) ~> (Cardinality(SentBy(1)) = 1)

\* Two entries of assetKeys are of different pairs.
OtherPair(a, b) == a.feature # b.feature \/ a.siteCode # b.siteCode

\* No computed asset key is a key of the cluster state.
NoClusterKey == \A i \in 1 .. Len(assetKeys) : assetKeys[i].assetKey \notin ClusterKeys

\* C30 as stated: different pairs always have different asset keys, and no
\* asset key is 'initialized' or 'features'.
C30_KeysNeverCollide ==
    /\ \A i, j \in 1 .. Len(assetKeys) :
         OtherPair(assetKeys[i], assetKeys[j]) => assetKeys[i].assetKey # assetKeys[j].assetKey
    /\ NoClusterKey

\* C30, amended: different pairs whose feature names contain no "." have
\* different asset keys, and no asset key is 'initialized' or 'features'.
C30_KeysDistinctWithoutDots ==
    /\ \A i, j \in 1 .. Len(assetKeys) :
         (/\ OtherPair(assetKeys[i], assetKeys[j])
          /\ ~HasDot(assetKeys[i].feature)
          /\ ~HasDot(assetKeys[j].feature))
            => assetKeys[i].assetKey # assetKeys[j].assetKey
    /\ NoClusterKey

\* Two pairs with feature names without ".", one site code with one, and a
\* pair whose site code is 'features'.
C30_Witness ==
    /\ Len(assetKeys) = 2
    /\ assetKeys[1].feature = "A" /\ assetKeys[1].siteCode = "B.X"
    /\ assetKeys[2].feature = "" /\ assetKeys[2].siteCode = "features"

====
